---- MODULE Spec2Model ----
(***************************************************************************)
(* jaccard_join (py_stringsimjoin/join/jaccard_join.py): the orchestration *)
(* of one run: validation, tokenizer flag, snapshots, job count, header,   *)
(* sequential or fork-join dispatch of set_sim_join, merge of the partial  *)
(* results, missing-value pass, flag revert, identifier assignment and     *)
(* finalization, in the in-memory and in the persisted-output mode.        *)
(*                                                                         *)
(* One behaviour is one call of jaccard_join.  The arguments and the data  *)
(* of the tables are chosen in Init and never change.  The right snapshot  *)
(* is the sequence of row keys 1..rtable_len; the left snapshot is one     *)
(* row, and `matches' is the set of right rows that join with it.          *)
(***************************************************************************)
EXTENDS Integers, Sequences, FiniteSets, TLC

\* ---------------------------------------------------------------- bounds
MaxRows == 3        \* rows of the right snapshot: 0..MaxRows
MaxJobsArg == 3     \* the n_jobs argument: -MaxNegJobs..MaxJobsArg
MaxNegJobs == 2
NumCpus == 2        \* multiprocessing.cpu_count() of the machine
MaxMissing == 2     \* pairs the missing-value pass yields: 0..MaxMissing
MaxFlush == 2       \* the flush_after argument: 1..MaxFlush
MaxNames == 2       \* names tempfile can draw in the scratch directory

VARIABLES
    pc,                 \* position in jaccard_join
    error,              \* the exception the run ended with, "none" otherwise
    output_file,        \* TRUE: an output_file is given; FALSE: None
    allow_missing,
    flush_after,
    n_jobs,             \* line 32 argument, reassigned at line 173
    requested,          \* the n_jobs argument as passed (history)
    inputs_valid,       \* do the validate_* calls of lines 116-150 pass
    rtable_len,         \* len(rtable_array)
    matches,            \* right rows whose pair satisfies the join condition
    n_missing,          \* number of pairs with a missing join value
    return_set,         \* tokenizer.get_return_set()
    return_set_at_entry,\* the flag when jaccard_join was called (history)
    revert_tokenizer_return_set_flag,
    fs,                 \* the file system: file name -> sequence of lines
    job_state,          \* job_index -> "idle" | "running" | "done" | "failed"
    results,            \* job_index -> the table the job returned
    output_table,       \* the orchestrator's row buffer
    returned,           \* the table jaccard_join returns (in-memory mode)
    id_passes,          \* how many times identifiers were assigned (history)
    job_rows,           \* job_index -> every row the job produced (history)
    missing_rows,       \* every row the missing-value pass produced (history)
    show_progress,      \* the show_progress argument
    job_args,           \* job_index -> the arguments of its set_sim_join call
    returns,            \* "pending", then what the call returned: "table" | "None"
    spool_idx,          \* which name of the scratch directory _output_file got
    other_spool         \* the spool name of a concurrent run in scratch_dir

vars == << pc, error, output_file, allow_missing, flush_after, n_jobs,
           requested, inputs_valid, rtable_len, matches, n_missing,
           return_set, return_set_at_entry, revert_tokenizer_return_set_flag,
           fs, job_state, results, output_table, returned, id_passes,
           job_rows, missing_rows, show_progress, job_args, returns,
           spool_idx, other_spool >>

inputs == << output_file, allow_missing, flush_after, requested, inputs_valid,
             rtable_len, matches, n_missing, return_set_at_entry,
             show_progress >>

\* ------------------------------------------------------------ data model
NoId == 0 - 1

\* A line of a table or of a csv file.
HeaderLine == [kind |-> "header", key |-> 0, id |-> NoId]
MainRow(r) == [kind |-> "main", key |-> r, id |-> NoId]
MissingRow(k) == [kind |-> "missing", key |-> k, id |-> NoId]

\* File names.
SpoolName(k) == [kind |-> "spool", idx |-> k]       \* a name tempfile draws
SpoolFile == SpoolName(spool_idx)                   \* _output_file
NoFile == [kind |-> "none", idx |-> 0]              \* no file at all
DestFile == [kind |-> "dest", idx |-> 0]            \* output_file
TempFile(i) == [kind |-> "tmp", idx |-> i]          \* _intermediate_output_files[i]

Exists(f) == f \in DOMAIN fs

\* open(f, 'a').write(lines): creates f when absent.
AppendTo(files, f, lines) ==
    [g \in (DOMAIN files) \cup {f} |->
        IF g = f
        THEN (IF f \in DOMAIN files THEN files[f] ELSE << >>) \o lines
        ELSE files[g]]

\* open(f, 'w').write(lines): truncates f.
WriteTo(files, f, lines) ==
    [g \in (DOMAIN files) \cup {f} |-> IF g = f THEN lines ELSE files[g]]

\* os.remove(f)
Remove(files, S) == [g \in (DOMAIN files) \ S |-> files[g]]

Min(a, b) == IF a <= b THEN a ELSE b
Max(a, b) == IF a >= b THEN a ELSE b
\* math.ceil(a / b) with the true division of Python 3
CeilDiv(a, b) == (a + b - 1) \div b

RECURSIVE Concat(_, _, _)
\* pd.concat of tables f[lo], ..., f[hi - 1]
Concat(f, lo, hi) == IF lo >= hi THEN << >> ELSE f[lo] \o Concat(f, lo + 1, hi)

\* --------------------------------------------------------- collaborators
\* The helpers of py_stringsimjoin.utils and set_sim_join are imported at
\* lines 11-17; their behaviour is taken from the design document (sections
\* 4.2-4.6) and from the way jaccard_join calls them.
\* get_num_processes_to_launch(n_jobs)
get_num_processes_to_launch(n) ==
    Max(IF n < 0 THEN NumCpus + 1 + n ELSE n, 1)

\* convert_dataframe_to_array(rtable, ...): rows with a join value, in order
rtable_array == [i \in 1..rtable_len |-> i]

\* split_table(table, n)[i]: contiguous balanced slices, in row order
split_table(table, n, i) ==
    SubSeq(table, ((i * Len(table)) \div n) + 1, ((i + 1) * Len(table)) \div n)

RECURSIVE JoinRows(_)
\* the pairs set_sim_join finds for a right partition, in row order
JoinRows(part) ==
    IF part = << >> THEN << >>
    ELSE (IF Head(part) \in matches THEN << MainRow(Head(part)) >> ELSE << >>)
         \o JoinRows(Tail(part))

RECURSIVE Buffered(_, _, _)
\* Rows pass through a buffer that is appended to the sink and cleared each
\* time it holds more than `fa' rows.  [flushed, residual]
Buffered(rows, fa, acc) ==
    IF rows = << >> THEN [flushed |-> acc.flushed, residual |-> acc.residual]
    ELSE LET buf == Append(acc.residual, Head(rows))
         IN  IF Len(buf) > fa
             THEN Buffered(Tail(rows), fa,
                           [flushed |-> acc.flushed \o buf, residual |-> << >>])
             ELSE Buffered(Tail(rows), fa,
                           [flushed |-> acc.flushed, residual |-> buf])

\* set_sim_join(ltable_array, part, ..., sink, fa): what goes to the sink and
\* what is returned
set_sim_join(part, fa) ==
    Buffered(JoinRows(part), fa, [flushed |-> << >>, residual |-> << >>])

\* set_sim_join without a sink: everything is returned
set_sim_join_in_memory(part) == JoinRows(part)

\* get_pairs_with_missing_value(..., _output_file, flush_after)
get_pairs_with_missing_value(fa) ==
    Buffered([k \in 1..n_missing |-> MissingRow(k)], fa,
             [flushed |-> << >>, residual |-> << >>])

\* write_file_with_id(_output_file, output_file): the lines of the spool file
\* with the identifier as first field, data rows numbered from 0
RECURSIVE WithIds(_, _)
WithIds(lines, next) ==
    IF lines = << >> THEN << >>
    ELSE IF Head(lines).kind = "header"
         THEN << Head(lines) >> \o WithIds(Tail(lines), next)
         ELSE << [Head(lines) EXCEPT !.id = next] >>
              \o WithIds(Tail(lines), next + 1)

\* output_table.insert(0, '_id', range(0, len(output_table)))
InsertId(table) == [i \in 1..Len(table) |-> [table[i] EXCEPT !.id = i - 1]]

\* a job that was not called
NoArgs == [called |-> FALSE, part |-> << >>, show_progress |-> FALSE,
           sink |-> NoFile]

Jobs == 0..(n_jobs - 1)
AllJobs == 0..(Max(MaxJobsArg, NumCpus) - 1)

\* ------------------------------------------------------------------ Init
Init ==
    /\ pc = "validate"
    /\ error = "none"
    /\ output_file \in BOOLEAN
    /\ allow_missing \in BOOLEAN
    /\ flush_after \in 1..MaxFlush
    /\ n_jobs \in (0 - MaxNegJobs)..MaxJobsArg
    /\ requested = n_jobs
    /\ inputs_valid \in BOOLEAN
    /\ rtable_len \in 0..MaxRows
    /\ matches \in SUBSET (1..rtable_len)
    /\ n_missing \in 0..MaxMissing
    /\ return_set \in BOOLEAN
    /\ return_set_at_entry = return_set
    /\ revert_tokenizer_return_set_flag = FALSE
    /\ fs = << >>
    /\ job_state = [i \in AllJobs |-> "idle"]
    /\ results = [i \in AllJobs |-> << >>]
    /\ output_table = << >>
    /\ returned = << >>
    /\ id_passes = 0
    /\ job_rows = [i \in AllJobs |-> << >>]
    /\ missing_rows = << >>
    /\ show_progress \in BOOLEAN
    /\ job_args = [i \in AllJobs |-> NoArgs]
    /\ returns = "pending"
    /\ spool_idx = 0
    /\ other_spool = NoFile

Raise(e) == pc' = "failed" /\ error' = e

\* --------------------------------------------------------------- actions
\* Validate with the tokenizer flag set before the validate_* calls run
Validate_FlagFirst ==
    /\ pc = "validate"
    /\ return_set' = TRUE
    /\ IF inputs_valid THEN pc' = "setup" /\ error' = error
                       ELSE Raise("ValidationError")
    /\ UNCHANGED << inputs, n_jobs, revert_tokenizer_return_set_flag, fs,
                    job_state, results, output_table, returned, id_passes,
                    job_rows, missing_rows,
                    job_args, returns, spool_idx, other_spool >>

\* lines 115-150: the validate_* calls; any failure raises before line 152
Validate ==
    /\ pc = "validate"
    /\ IF inputs_valid THEN pc' = "setup" /\ error' = error
                       ELSE Raise("ValidationError")
    /\ UNCHANGED << inputs, n_jobs, return_set,
                    revert_tokenizer_return_set_flag, fs, job_state, results,
                    output_table, returned, id_passes,
                    job_rows, missing_rows,
                    job_args, returns, spool_idx, other_spool >>

\* Setup without lines 153-156: the tokenizer is left as the caller set it
Setup_FlagUntouched ==
    /\ pc = "setup"
    /\ n_jobs' = Min(get_num_processes_to_launch(n_jobs), Len(rtable_array))
    /\ pc' = "header"
    /\ UNCHANGED << error, inputs, return_set, revert_tokenizer_return_set_flag,
                    fs, job_state, results, output_table, returned, id_passes,
                    job_rows, missing_rows, job_args, returns, spool_idx,
                    other_spool >>

\* Setup without the min(..., len(rtable_array)) of line 173
Setup_NoRowCap ==
    /\ pc = "setup"
    /\ IF ~return_set
       THEN return_set' = TRUE /\ revert_tokenizer_return_set_flag' = TRUE
       ELSE return_set' = return_set /\ revert_tokenizer_return_set_flag' = FALSE
    /\ n_jobs' = get_num_processes_to_launch(n_jobs)
    /\ pc' = "header"
    /\ UNCHANGED << error, inputs, fs, job_state, results, output_table,
                    returned, id_passes, job_rows, missing_rows,
                    job_args, returns, spool_idx, other_spool >>

\* lines 152-173: tokenizer flag, projections, snapshots, job count
Setup ==
    /\ pc = "setup"
    /\ IF ~return_set
       THEN return_set' = TRUE /\ revert_tokenizer_return_set_flag' = TRUE
       ELSE return_set' = return_set /\ revert_tokenizer_return_set_flag' = FALSE
    /\ n_jobs' = Min(get_num_processes_to_launch(n_jobs), Len(rtable_array))
    /\ pc' = "header"
    /\ UNCHANGED << error, inputs, fs, job_state, results, output_table,
                    returned, id_passes,
                    job_rows, missing_rows,
                    job_args, returns, spool_idx, other_spool >>

\* tempfile.NamedTemporaryFile(dir=scratch_dir, delete=False), line 179: the
\* names it may draw, none of which exists in the scratch directory
NamedTemporaryFile ==
    {k \in 0..(MaxNames - 1) : SpoolName(k) \notin (DOMAIN fs) \cup {other_spool}}

\* WriteHeader without the `if output_file != None' of line 177
WriteHeader_Always ==
    /\ pc = "header"
    /\ \E k \in NamedTemporaryFile :
            /\ spool_idx' = k
            /\ fs' = WriteTo(fs, SpoolName(k), << HeaderLine >>)
    /\ pc' = "dispatch"
    /\ UNCHANGED << error, inputs, n_jobs, return_set,
                    revert_tokenizer_return_set_flag, job_state, results,
                    output_table, returned, id_passes, job_rows, missing_rows,
                    job_args, returns, other_spool >>

\* lines 176-189: the spool file and its header line
WriteHeader ==
    /\ pc = "header"
    /\ IF output_file
       THEN \E k \in NamedTemporaryFile :
                /\ spool_idx' = k
                /\ fs' = WriteTo(fs, SpoolName(k), << HeaderLine >>)
       ELSE fs' = fs /\ spool_idx' = spool_idx
    /\ pc' = "dispatch"
    /\ UNCHANGED << error, inputs, n_jobs, return_set,
                    revert_tokenizer_return_set_flag, job_state, results,
                    output_table, returned, id_passes,
                    job_rows, missing_rows,
                    job_args, returns, other_spool >>

\* line 179 in a concurrent run of jaccard_join with the same scratch_dir
OtherRunCreatesSpool ==
    /\ pc \notin {"done", "failed"}
    /\ other_spool = NoFile
    /\ \E k \in NamedTemporaryFile : other_spool' = SpoolName(k)
    /\ UNCHANGED << pc, error, inputs, n_jobs, return_set,
                    revert_tokenizer_return_set_flag, fs, job_state, results,
                    output_table, returned, id_passes, job_rows, missing_rows,
                    job_args, returns, spool_idx >>

\* line 179: tempfile.NamedTemporaryFile raises, nothing is created
WriteHeaderFail ==
    /\ pc = "header"
    /\ output_file
    /\ Raise("IOError")
    /\ UNCHANGED << inputs, n_jobs, return_set,
                    revert_tokenizer_return_set_flag, fs, job_state, results,
                    output_table, returned, id_passes,
                    job_rows, missing_rows,
                    job_args, returns, spool_idx, other_spool >>

\* the arguments of the call of lines 194-204
SequentialArgs ==
    [called |-> TRUE, part |-> rtable_array, show_progress |-> show_progress,
     sink |-> SpoolFile]

\* lines 192-204, n_jobs <= 1: one set_sim_join call in the caller's context.
\* Line 203 reads _output_file, which is bound only at line 180.
SequentialJoin ==
    /\ pc = "dispatch"
    /\ n_jobs <= 1
    /\ IF ~output_file
       THEN /\ Raise("NameError")
            /\ UNCHANGED << fs, output_table, job_rows, job_args >>
       ELSE LET a == SequentialArgs
                r == set_sim_join(a.part, flush_after)
            IN  /\ job_args' = [job_args EXCEPT ![0] = a]
                /\ fs' = AppendTo(fs, a.sink, r.flushed)
                /\ output_table' = r.residual
                /\ job_rows' = [job_rows EXCEPT ![0] = r.flushed \o r.residual]
                /\ pc' = "missing"
                /\ error' = error
    /\ UNCHANGED << inputs, n_jobs, return_set,
                    revert_tokenizer_return_set_flag, job_state, results,
                    returned, id_passes, missing_rows,
                    returns, spool_idx, other_spool >>

\* lines 194-204: set_sim_join raises
SequentialJoinFail ==
    /\ pc = "dispatch"
    /\ n_jobs <= 1
    /\ output_file
    /\ Raise("WorkerFailure")
    /\ UNCHANGED << inputs, n_jobs, return_set,
                    revert_tokenizer_return_set_flag, fs, job_state, results,
                    output_table, returned, id_passes,
                    job_rows, missing_rows,
                    job_args, returns, spool_idx, other_spool >>

\* get_temp_filenames(n_jobs, scratch_dir): n_jobs fresh files
get_temp_filenames(files) ==
    [g \in (DOMAIN files) \cup {TempFile(i) : i \in Jobs} |->
        IF g \in DOMAIN files THEN files[g] ELSE << >>]

\* every job is handed the run's spool file as sink
JobSink_Spool(i) == SpoolFile

\* the sink and flush threshold handed to job i (lines 212, 225)
JobSink(i) == TempFile(i)
JobFlushAfter == CeilDiv(flush_after, n_jobs)

\* every job is handed the first split
JobPartition_First(i) == split_table(rtable_array, n_jobs, 0)

\* r_splits[job_index], lines 215 and 246
JobPartition(i) == split_table(rtable_array, n_jobs, i)

\* every job reports progress when the caller asked for it
JobShowProgress_All(i) == show_progress

\* show_progress and (job_index == n_jobs - 1), lines 224 and 255
JobShowProgress(i) == show_progress /\ (i = n_jobs - 1)

\* the arguments of the delayed call of job i, lines 214-225 and 245-255
JobArgs(i) ==
    [called |-> TRUE, part |-> JobPartition(i),
     show_progress |-> JobShowProgress(i),
     sink |-> IF output_file THEN JobSink(i) ELSE NoFile]

\* lines 209-214 and 245: split the right snapshot and launch the jobs
StartParallel ==
    /\ pc = "dispatch"
    /\ n_jobs > 1
    /\ fs' = IF output_file THEN get_temp_filenames(fs) ELSE fs
    /\ job_state' = [i \in AllJobs |-> IF i \in Jobs THEN "running" ELSE "idle"]
    /\ job_args' = [i \in AllJobs |-> IF i \in Jobs THEN JobArgs(i) ELSE NoArgs]
    /\ pc' = "jobs"
    /\ UNCHANGED << error, inputs, n_jobs, return_set,
                    revert_tokenizer_return_set_flag, results, output_table,
                    returned, id_passes,
                    job_rows, missing_rows,
                    returns, spool_idx, other_spool >>

\* lines 214-226 and 245-256: job job_index runs set_sim_join on its split
RunJob(i) ==
    /\ pc = "jobs"
    /\ job_state[i] = "running"
    /\ LET part == job_args[i].part
       IN  IF output_file
           THEN LET r == set_sim_join(part, JobFlushAfter)
                IN  /\ fs' = AppendTo(fs, job_args[i].sink, r.flushed)
                    /\ results' = [results EXCEPT ![i] = r.residual]
                    /\ job_rows' = [job_rows EXCEPT ![i] = r.flushed \o r.residual]
           ELSE /\ fs' = fs
                /\ results' = [results EXCEPT ![i] = set_sim_join_in_memory(part)]
                /\ job_rows' = [job_rows EXCEPT ![i] = set_sim_join_in_memory(part)]
    /\ job_state' = [job_state EXCEPT ![i] = "done"]
    /\ UNCHANGED << pc, error, inputs, n_jobs, return_set,
                    revert_tokenizer_return_set_flag, output_table, returned,
                    id_passes, missing_rows,
                    job_args, returns, spool_idx, other_spool >>

\* a job raises and the dispatch goes on with an empty result in its place
JobFail_EmptyResult(i) ==
    /\ pc = "jobs"
    /\ job_state[i] = "running"
    /\ job_state' = [job_state EXCEPT ![i] = "done"]
    /\ error' = "WorkerFailure"
    /\ UNCHANGED << pc, inputs, n_jobs, return_set,
                    revert_tokenizer_return_set_flag, fs, results,
                    output_table, returned, id_passes, job_rows, missing_rows,
                    job_args, returns, spool_idx, other_spool >>

\* a job raises: Parallel re-raises in the caller
JobFail(i) ==
    /\ pc = "jobs"
    /\ job_state[i] = "running"
    /\ job_state' = [job_state EXCEPT ![i] = "failed"]
    /\ Raise("WorkerFailure")
    /\ UNCHANGED << inputs, n_jobs, return_set,
                    revert_tokenizer_return_set_flag, fs, results,
                    output_table, returned, id_passes,
                    job_rows, missing_rows,
                    job_args, returns, spool_idx, other_spool >>

\* Parallel returning as soon as one job is done
ParallelReturns_AnyJob == \E i \in Jobs : job_state[i] = "done"

\* Parallel(n_jobs=n_jobs)(...) blocks until every job has returned
ParallelReturns == \A i \in Jobs : job_state[i] = "done"

\* Parallel(...) returns once every job is done; line 258 in memory
JoinJobs ==
    /\ pc = "jobs"
    /\ ParallelReturns
    /\ IF output_file
       THEN pc' = "merge" /\ output_table' = output_table
       ELSE pc' = "missing" /\ output_table' = Concat(results, 0, n_jobs)
    /\ UNCHANGED << error, inputs, n_jobs, return_set,
                    revert_tokenizer_return_set_flag, fs, job_state, results,
                    returned, id_passes,
                    job_rows, missing_rows,
                    job_args, returns, spool_idx, other_spool >>

\* merge_outputs(_intermediate_output_files, _output_file), line 229
merge_outputs(files) ==
    AppendTo(files, SpoolFile,
             Concat([i \in Jobs |-> files[TempFile(i)]], 0, n_jobs))

MergeOutputs ==
    /\ pc = "merge"
    /\ fs' = merge_outputs(fs)
    /\ pc' = "rmtmp"
    /\ UNCHANGED << error, inputs, n_jobs, return_set,
                    revert_tokenizer_return_set_flag, job_state, results,
                    output_table, returned, id_passes,
                    job_rows, missing_rows,
                    job_args, returns, spool_idx, other_spool >>

MergeOutputsFail ==
    /\ pc = "merge"
    /\ Raise("IOError")
    /\ UNCHANGED << inputs, n_jobs, return_set,
                    revert_tokenizer_return_set_flag, fs, job_state, results,
                    output_table, returned, id_passes,
                    job_rows, missing_rows,
                    job_args, returns, spool_idx, other_spool >>

\* RemoveIntermediate that leaves the last job's file behind
RemoveIntermediate_SkipLast ==
    /\ pc = "rmtmp"
    /\ fs' = Remove(fs, {TempFile(i) : i \in 0..(n_jobs - 2)})
    /\ pc' = "concat"
    /\ UNCHANGED << error, inputs, n_jobs, return_set,
                    revert_tokenizer_return_set_flag, job_state, results,
                    output_table, returned, id_passes, job_rows, missing_rows,
                    job_args, returns, spool_idx, other_spool >>

\* lines 231-233
RemoveIntermediate ==
    /\ pc = "rmtmp"
    /\ fs' = Remove(fs, {TempFile(i) : i \in Jobs})
    /\ pc' = "concat"
    /\ UNCHANGED << error, inputs, n_jobs, return_set,
                    revert_tokenizer_return_set_flag, job_state, results,
                    output_table, returned, id_passes,
                    job_rows, missing_rows,
                    job_args, returns, spool_idx, other_spool >>

\* the file the orchestrator's flush of line 237 appends to
FlushTarget == DestFile

\* lines 234-238
ConcatResults ==
    /\ pc = "concat"
    /\ LET t == Concat(results, 0, n_jobs)
       IN  IF Len(t) > flush_after
           THEN /\ fs' = AppendTo(fs, FlushTarget, t)
                /\ output_table' = << >>
           ELSE /\ fs' = fs
                /\ output_table' = t
    /\ pc' = "missing"
    /\ UNCHANGED << error, inputs, n_jobs, return_set,
                    revert_tokenizer_return_set_flag, job_state, results,
                    returned, id_passes,
                    job_rows, missing_rows,
                    job_args, returns, spool_idx, other_spool >>

\* lines 263-271.  Line 270 reads _output_file, bound only at line 180.
MissingPass ==
    /\ pc = "missing"
    /\ IF ~allow_missing
       THEN /\ pc' = "revert" /\ error' = error
            /\ UNCHANGED << fs, output_table, missing_rows >>
       ELSE IF ~output_file
       THEN /\ Raise("NameError")
            /\ UNCHANGED << fs, output_table, missing_rows >>
       ELSE LET r == get_pairs_with_missing_value(flush_after)
            IN  /\ fs' = AppendTo(fs, SpoolFile, r.flushed)
                /\ output_table' = output_table \o r.residual
                /\ missing_rows' = r.flushed \o r.residual
                /\ pc' = "revert"
                /\ error' = error
    /\ UNCHANGED << inputs, n_jobs, return_set,
                    revert_tokenizer_return_set_flag, job_state, results,
                    returned, id_passes, job_rows,
                    job_args, returns, spool_idx, other_spool >>

\* get_pairs_with_missing_value raises
MissingPassFail ==
    /\ pc = "missing"
    /\ allow_missing
    /\ output_file
    /\ Raise("MissingPassFailure")
    /\ UNCHANGED << inputs, n_jobs, return_set,
                    revert_tokenizer_return_set_flag, fs, job_state, results,
                    output_table, returned, id_passes,
                    job_rows, missing_rows,
                    job_args, returns, spool_idx, other_spool >>

\* lines 273-275
RevertFlag ==
    /\ pc = "revert"
    /\ return_set' = IF revert_tokenizer_return_set_flag THEN FALSE ELSE return_set
    /\ pc' = "finalize"
    /\ UNCHANGED << error, inputs, n_jobs, revert_tokenizer_return_set_flag,
                    fs, job_state, results, output_table, returned, id_passes,
                    job_rows, missing_rows,
                    job_args, returns, spool_idx, other_spool >>

\* lines 279-281
ReturnTable ==
    /\ pc = "finalize"
    /\ ~output_file
    /\ returned' = InsertId(output_table)
    /\ returns' = "table"
    /\ id_passes' = id_passes + 1
    /\ pc' = "done"
    /\ UNCHANGED << error, inputs, n_jobs, return_set,
                    revert_tokenizer_return_set_flag, fs, job_state, results,
                    output_table,
                    job_rows, missing_rows,
                    job_args, spool_idx, other_spool >>

\* line 284 with to_csv's default header=True
AppendResidual_WithHeader ==
    /\ pc = "finalize"
    /\ output_file
    /\ fs' = AppendTo(fs, SpoolFile, << HeaderLine >> \o output_table)
    /\ pc' = "write_id"
    /\ UNCHANGED << error, inputs, n_jobs, return_set,
                    revert_tokenizer_return_set_flag, job_state, results,
                    output_table, returned, id_passes, job_rows, missing_rows,
                    job_args, returns, spool_idx, other_spool >>

\* line 284
AppendResidual ==
    /\ pc = "finalize"
    /\ output_file
    /\ fs' = AppendTo(fs, SpoolFile, output_table)
    /\ pc' = "write_id"
    /\ UNCHANGED << error, inputs, n_jobs, return_set,
                    revert_tokenizer_return_set_flag, job_state, results,
                    output_table, returned, id_passes,
                    job_rows, missing_rows,
                    job_args, returns, spool_idx, other_spool >>

\* line 286
write_file_with_id(files) == WriteTo(files, DestFile, WithIds(files[SpoolFile], 0))

WriteFileWithId ==
    /\ pc = "write_id"
    /\ fs' = write_file_with_id(fs)
    /\ id_passes' = id_passes + 1
    /\ pc' = "rmspool"
    /\ UNCHANGED << error, inputs, n_jobs, return_set,
                    revert_tokenizer_return_set_flag, job_state, results,
                    output_table, returned,
                    job_rows, missing_rows,
                    job_args, returns, spool_idx, other_spool >>

\* lines 284-286: the append or write_file_with_id raises before writing
FinalizeFail ==
    /\ pc \in {"finalize", "write_id"}
    /\ output_file
    /\ Raise("IOError")
    /\ UNCHANGED << inputs, n_jobs, return_set,
                    revert_tokenizer_return_set_flag, fs, job_state, results,
                    output_table, returned, id_passes,
                    job_rows, missing_rows,
                    job_args, returns, spool_idx, other_spool >>

\* lines 288-289; the function then ends without a return statement
RemoveSpool ==
    /\ pc = "rmspool"
    /\ fs' = Remove(fs, {SpoolFile})
    /\ returns' = "None"
    /\ pc' = "done"
    /\ UNCHANGED << error, inputs, n_jobs, return_set,
                    revert_tokenizer_return_set_flag, job_state, results,
                    output_table, returned, id_passes,
                    job_rows, missing_rows,
                    job_args, spool_idx, other_spool >>

Next ==
    \/ Validate
    \/ Setup
    \/ WriteHeader
    \/ WriteHeaderFail
    \/ SequentialJoin
    \/ SequentialJoinFail
    \/ StartParallel
    \/ \E i \in AllJobs : RunJob(i)
    \/ \E i \in AllJobs : JobFail(i)
    \/ JoinJobs
    \/ MergeOutputs
    \/ MergeOutputsFail
    \/ RemoveIntermediate
    \/ ConcatResults
    \/ MissingPass
    \/ MissingPassFail
    \/ RevertFlag
    \/ ReturnTable
    \/ AppendResidual
    \/ WriteFileWithId
    \/ FinalizeFail
    \/ RemoveSpool

Spec == Init /\ [][Next]_vars

\* the run next to a concurrent run that shares its scratch directory
NextTwoRuns == Next \/ OtherRunCreatesSpool

SpecTwoRuns == Init /\ [][NextTwoRuns]_vars

\* ---------------------------------------------------------------- claims
Done == pc = "done"
Failed == pc = "failed"

\* a row without its identifier
Pair(l) == [kind |-> l.kind, key |-> l.key]
IsData(l) == l.kind # "header"
DataRows(lines) == SelectSeq(lines, IsData)
Count(rows, p) == Cardinality({i \in DOMAIN rows : Pair(rows[i]) = p})
PairsOf(rows) == {Pair(rows[i]) : i \in DOMAIN rows}
SameMultiset(a, b) ==
    /\ Len(a) = Len(b)
    /\ \A p \in PairsOf(a) \cup PairsOf(b) : Count(a, p) = Count(b, p)

\* the rows of the run's final output: the destination file or the table
FinalOutput == IF output_file
               THEN (IF Exists(DestFile) THEN DataRows(fs[DestFile]) ELSE << >>)
               ELSE returned

\* every row the jobs and the missing-value pass produced, jobs in index order
MainProduced == Concat(job_rows, 0, Max(n_jobs, 1))
Produced == MainProduced \o missing_rows

\* what the job of an n_jobs = 1 run finds, with the missing-value pairs
ReferencePairs ==
    {Pair(MainRow(r)) : r \in matches}
    \cup (IF allow_missing THEN {Pair(MissingRow(k)) : k \in 1..n_missing} ELSE {})

\* C1: in persisted-output mode the data rows of the finalized destination
\* file are exactly the multiset of the rows the jobs produced (flushed or
\* returned) and of the missing-value pairs: none lost, none duplicated.
C1_NoRowLostOrDuplicated ==
    (Done /\ output_file) => SameMultiset(FinalOutput, Produced)

\* C2: a run with n_jobs = 1 and a run with n_jobs = k > 1 both complete (no
\* run dies of an error of jaccard_join's own) and yield the same set of
\* pairs, namely the pairs the single job of the n_jobs = 1 run finds, in
\* both output modes.
C2_ParallelismInvariance ==
    /\ error # "NameError"
    /\ Done => PairsOf(FinalOutput) = ReferencePairs

\* C3: in-memory mode: the run raises no error of its own, for every job
\* count and for allow_missing true or false, and a run that ends returns
\* the merged job results followed by the missing-value pairs, identifiers
\* in the first column.
C3_InMemoryReturnsTable ==
    ~output_file =>
        /\ error # "NameError"
        /\ Done => /\ [i \in DOMAIN returned |-> Pair(returned[i])]
                        = [i \in DOMAIN Produced |-> Pair(Produced[i])]
                   /\ \A i \in DOMAIN returned : returned[i].id = i - 1

\* C4: in the final output of a successful run no missing-value pair
\* precedes a main-join pair, in both output modes.
C4_MainBeforeMissing ==
    Done => \A i, j \in DOMAIN FinalOutput :
                (FinalOutput[i].kind = "missing" /\ FinalOutput[j].kind = "main")
                    => j < i

\* C5: the identifier column of the final output of a successful run is
\* 0..N-1 in row order, N the number of pairs the jobs and the missing-value
\* pass produced, and identifiers are assigned exactly once.
C5_IdentifierContiguity ==
    Done => /\ Len(FinalOutput) = Len(Produced)
            /\ \A i \in DOMAIN FinalOutput : FinalOutput[i].id = i - 1
            /\ id_passes = 1

JobCountKnown == pc \notin {"validate", "setup"} /\ error # "ValidationError"

\* C6 as stated: the job count is in [1, min(requested parallelism, rows of
\* the right snapshot)], also for a snapshot without rows.
C6_JobCountInRange ==
    JobCountKnown =>
        /\ 1 <= n_jobs
        /\ n_jobs <= Min(get_num_processes_to_launch(requested), rtable_len)

\* C6 amended: the job count is at most the number of right snapshot rows
\* and at most the requested parallelism; it is at least 1 when the snapshot
\* has a row, and it is 0 when the snapshot has none, in which case no
\* parallel job is launched (the sequential path makes the one kernel call).
C6_JobCountAmended ==
    JobCountKnown =>
        /\ n_jobs <= rtable_len
        /\ requested >= 1 => n_jobs <= requested
        /\ requested < 1 => n_jobs <= Max(NumCpus + 1 + requested, 1)
        /\ rtable_len >= 1 => n_jobs >= 1
        /\ rtable_len = 0 =>
              (n_jobs = 0 /\ \A i \in AllJobs : job_state[i] = "idle")
        /\ \A i \in AllJobs : job_state[i] # "idle" => i < n_jobs

\* an empty right snapshot went through the sequential path with n_jobs = 0
C6_Witness ==
    /\ pc = "missing"
    /\ rtable_len = 0
    /\ n_jobs = 0
    /\ requested > 1

\* C7: a run that fails after validation has not created or written the
\* destination file.
C7_FailedRunLeavesNoOutput ==
    (Failed /\ output_file) => ~Exists(DestFile)

\* C8: when the run has ended, normally or in failure, the tokenizer's
\* return_set flag has the value it had at entry.
C8_FlagRestored ==
    (Done \/ Failed) => return_set = return_set_at_entry

\* C9: a validation error aborts the run before the tokenizer flag is
\* changed, before the job count is computed or a job dispatched, with no
\* file created and no output produced; and no run with invalid inputs gets
\* past validation.
C9_ValidationBeforeWork ==
    /\ ~inputs_valid => pc \in {"validate", "failed"}
    /\ error = "ValidationError" =>
          /\ return_set = return_set_at_entry
          /\ ~revert_tokenizer_return_set_flag
          /\ n_jobs = requested
          /\ DOMAIN fs = {}
          /\ \A i \in AllJobs : job_state[i] = "idle" /\ job_rows[i] = << >>
          /\ output_table = << >>
          /\ returned = << >>
          /\ id_passes = 0

\* a persisted-output run of a tokenizer with the flag off failed validation
C9_Witness ==
    /\ error = "ValidationError"
    /\ Failed
    /\ output_file
    /\ ~return_set_at_entry
    /\ requested > 1

\* C10: after a successful persisted-output run neither the spool file nor
\* any per-job temp file remains; only the destination file exists.
C10_Cleanup ==
    (Done /\ output_file) => DOMAIN fs = {DestFile}

\* a successful persisted-output parallel run whose jobs wrote to their files
C10_Witness ==
    /\ Done
    /\ output_file
    /\ n_jobs > 1
    /\ \E i \in Jobs : Len(job_rows[i]) > Len(results[i])

Called(i) == job_args[i].called

\* C11: in every dispatch the job owning the last partition (the called job
\* of highest index) receives show_progress = true exactly when the caller
\* asked for progress, and every other job receives false; on the
\* sequential path the one job is that job.
C11_ProgressOnlyLastJob ==
    \A i \in AllJobs :
        Called(i) =>
            (job_args[i].show_progress
                <=> (show_progress /\ \A j \in AllJobs : Called(j) => j <= i))

\* three persisted-output jobs dispatched with progress requested
C11_Witness ==
    /\ pc = "jobs"
    /\ show_progress
    /\ output_file
    /\ n_jobs >= 3
    /\ job_args[n_jobs - 1].show_progress
    /\ ~job_args[0].show_progress

\* C12: exactly one output mode is active per run: without output_file the
\* run never creates a spool, temp or destination file and a completed run
\* returns a table; with output_file the run never returns a table and a
\* completed run has written the destination file.
C12_OneOutputMode ==
    /\ ~output_file =>
          /\ DOMAIN fs = {}
          /\ Done => returns = "table"
    /\ output_file =>
          /\ returns # "table"
          /\ returned = << >>
          /\ Done => (Exists(DestFile) /\ returns = "None")

\* an in-memory run returned a table of at least two rows
C12_Witness ==
    /\ Done
    /\ ~output_file
    /\ returns = "table"
    /\ Len(returned) >= 2

\* the job that produced the main-join row of right key k
JobOfKey(k) ==
    CHOOSE i \in AllJobs : \E x \in DOMAIN job_rows[i] : job_rows[i][x].key = k

\* C13: the merged main-join result is the concatenation of the partial
\* results by ascending job index: for jobs i < j every row job i produced
\* (flushed to its file or returned) precedes every row job j produced.
C13_JobOrder ==
    Done => \A a, b \in DOMAIN FinalOutput :
                (/\ FinalOutput[a].kind = "main"
                 /\ FinalOutput[b].kind = "main"
                 /\ JobOfKey(FinalOutput[a].key) < JobOfKey(FinalOutput[b].key))
                    => a < b

\* C14: when the orchestrator's row buffer (the concatenated job results)
\* exceeds flush_after, its rows are appended to the run's spool file, to no
\* other file, and the buffer is cleared.
C14_FlushToSpoolOnly ==
    [][(pc = "concat" /\ Len(Concat(results, 0, n_jobs)) > flush_after)
          => /\ fs' = AppendTo(fs, SpoolFile, Concat(results, 0, n_jobs))
             /\ output_table' = << >>]_vars

\* C15: the per-job files are concatenated into the spool file only after
\* every one of the n jobs has completed, a per-job file is deleted only
\* after the concatenation has completed, and no job writes once the merge
\* has begun.
C15_ForkJoinBarrier ==
    [][/\ (pc' = "merge" \/ (pc = "merge" /\ pc' = "rmtmp"))
             => \A i \in Jobs : job_state[i] = "done"
       /\ (\E i \in AllJobs : Exists(TempFile(i)) /\ TempFile(i) \notin DOMAIN fs')
             => /\ pc = "rmtmp"
                /\ \A i \in Jobs : job_state[i] = "done"
                /\ fs[SpoolFile] = << HeaderLine >>
                       \o Concat([i \in Jobs |-> fs[TempFile(i)]], 0, n_jobs)
       /\ (job_rows' # job_rows /\ n_jobs > 1)
             => (pc = "jobs" /\ pc' = "jobs")
      ]_vars

\* the per-job files were merged into the spool file and then removed
C15_Witness ==
    /\ pc = "concat"
    /\ output_file
    /\ n_jobs >= 2
    /\ Len(fs[SpoolFile]) >= 3
    /\ \A i \in Jobs : ~Exists(TempFile(i))

\* the parallel jobs were launched
Dispatched == \E i \in AllJobs : job_state[i] # "idle"

\* C16: for n > 1 exactly the jobs 0..n-1 are called, each with one
\* partition, the partitions handed out cover the right snapshot once and
\* in job order, and the partial result of job i is the join of partition
\* i; for n <= 1 the one job called receives the whole right snapshot.
C16_OnePartitionPerJob ==
    /\ Dispatched =>
          /\ n_jobs > 1
          /\ {i \in AllJobs : Called(i)} = Jobs
          /\ Concat([i \in Jobs |-> job_args[i].part], 0, n_jobs) = rtable_array
          /\ \A i \in Jobs :
                job_state[i] = "done" => job_rows[i] = JoinRows(job_args[i].part)
    /\ n_jobs <= 1 =>
          /\ \A i \in AllJobs : Called(i) => i = 0
          /\ Called(0) => (job_args[0].part = rtable_array
                           /\ job_rows[0] = JoinRows(rtable_array))

\* three jobs over a three-row snapshot have all returned
C16_Witness ==
    /\ pc = "jobs"
    /\ n_jobs = 3
    /\ rtable_len = 3
    /\ matches = {1, 2, 3}
    /\ \A i \in Jobs : job_state[i] = "done" /\ Len(job_rows[i]) = 1

\* C17: when a unit of work has failed the run is in failure, nothing was
\* merged, the missing-value pass did not run, no identifier was assigned,
\* nothing was returned or written to the destination file, and the run
\* takes no further step (no job is run again).
C17_WorkerFailureAborts ==
    /\ []((error = "WorkerFailure" \/ \E i \in AllJobs : job_state[i] = "failed")
            => /\ Failed
               /\ error = "WorkerFailure"
               /\ output_table = << >>
               /\ missing_rows = << >>
               /\ id_passes = 0
               /\ returns = "pending"
               /\ returned = << >>
               /\ ~Exists(DestFile)
               /\ (Dispatched /\ output_file) => fs[SpoolFile] = << HeaderLine >>)
    /\ [][Failed => UNCHANGED vars]_vars

\* one of three jobs failed after another had returned rows
C17_Witness ==
    /\ Failed
    /\ n_jobs = 3
    /\ \E i \in Jobs : job_state[i] = "failed"
    /\ \E i \in Jobs : job_state[i] = "done" /\ Len(job_rows[i]) > 0
    /\ \E i \in Jobs : job_state[i] = "running"

\* C18: in persisted-output mode the spool file holds its header before any
\* job is called, and as long as it exists it holds exactly one header
\* line, as its first line.
C18_SingleHeader ==
    /\ Exists(SpoolFile) =>
          /\ Len(fs[SpoolFile]) >= 1
          /\ fs[SpoolFile][1] = HeaderLine
          /\ \A k \in 2..Len(fs[SpoolFile]) : fs[SpoolFile][k].kind # "header"
    /\ (output_file /\ ~Done /\ \E i \in AllJobs : Called(i)) => Exists(SpoolFile)

\* job files were merged, the missing-value pass flushed and the residual
\* buffer was appended
C18_Witness ==
    /\ pc = "write_id"
    /\ n_jobs >= 2
    /\ allow_missing
    /\ Len(output_table) >= 1
    /\ Len(missing_rows) > Len(output_table)
    /\ \E i \in Jobs : Len(job_rows[i]) > Len(results[i])

\* C19: in a persisted-output run with n > 1 job i is handed temp file i as
\* sink, no two jobs are handed the same sink and no job is handed the
\* run's spool file; and the spool file of a concurrent run that shares the
\* scratch directory is another file than this run's.
C19_DisjointSinks ==
    /\ (Dispatched /\ output_file) =>
          \A i \in Jobs :
              /\ job_args[i].sink = TempFile(i)
              /\ job_args[i].sink # SpoolFile
              /\ job_args[i].sink # other_spool
              /\ \A j \in Jobs : j # i => job_args[j].sink # job_args[i].sink
    /\ (Exists(SpoolFile) \/ (Done /\ output_file)) => other_spool # SpoolFile

\* two jobs run while a concurrent run holds the first name of the directory
C19_Witness ==
    /\ pc = "jobs"
    /\ output_file
    /\ n_jobs >= 2
    /\ Exists(SpoolFile)
    /\ other_spool = SpoolName(0)
    /\ \E i \in Jobs : job_state[i] = "done" /\ Len(fs[TempFile(i)]) > 0

\* a step in which a set_sim_join call runs
KernelStep ==
    \/ \E i \in AllJobs : job_state[i] = "running" /\ job_state'[i] = "done"
    \/ pc = "dispatch" /\ pc' = "missing"

\* C20: the tokenizer returns sets from before the first job is dispatched
\* until the missing-value pass is over: during every kernel invocation the
\* flag is true, and it goes back to false only at the revert of lines
\* 273-275, with no job running, when it was false at entry.
C20_SetModeDuringJobs ==
    /\ []((pc \in {"header", "dispatch", "jobs", "merge", "rmtmp", "concat",
                   "missing", "revert"}
           \/ \E i \in AllJobs : job_state[i] = "running") => return_set)
    /\ [][KernelStep => (return_set /\ return_set')]_vars
    /\ [][(return_set /\ ~return_set')
             => /\ pc = "revert"
                /\ ~return_set_at_entry
                /\ \A i \in AllJobs : job_state[i] \in {"idle", "done"}]_vars

\* jobs run with a tokenizer whose flag was off at entry
C20_Witness ==
    /\ pc = "jobs"
    /\ ~return_set_at_entry
    /\ return_set
    /\ \E i \in Jobs : job_state[i] = "running"
    /\ \E i \in Jobs : job_state[i] = "done" /\ Len(job_rows[i]) > 0
====
